---------------------------- MODULE Spec2Model ----------------------------
(***************************************************************************)
(* The multi-source job scraper of directives/lead_magnet_outreach.md      *)
(* (execution/job_scraper.py and execution/scrapers/*.py): per-platform    *)
(* tier routing, the tiered fallback of scrape_platform, the five          *)
(* scrapers as far as they decide whether a call returns, raises or makes  *)
(* a request at all, and main: asyncio.gather over the platforms, the      *)
(* aggregation loop and the JSON dump.                                     *)
(*                                                                         *)
(* One asyncio task per requested platform.  A task is "ready" (about to   *)
(* run synchronous code), "awaiting" (suspended in `await scraper.scrape`),*)
(* "done" (returned its dict) or "raised" (an exception left the           *)
(* coroutine).  Time is logical: a call is immediate, long (it returns     *)
(* only after the clock has advanced) or never returns.                    *)
(***************************************************************************)
EXTENDS Integers, Sequences, FiniteSets, TLC

\* ------------------------------------------------------------------ bounds
MaxPlatforms == 2
MaxCount == 3
MaxYield == 3

\* --------------------------------------------------------------- constants
Tiers == {"brightdata", "serpapi", "scraperapi", "firecrawl", "playwright"}

KnownPlatforms ==
    {"linkedin", "indeed", "stepstone", "greenhouse", "lever", "workday", "ashby"}

\* Platforms a caller may name with --platforms; "xing" stands for any name
\* PLATFORM_ROUTING has no entry for.
RequestPlatforms == {"linkedin", "stepstone", "greenhouse", "xing"}

\* Variant of PLATFORM_ROUTING: Google Jobs first wherever jobs are searched.
PLATFORM_ROUTING_SerpFirst ==
    [p \in KnownPlatforms |->
        CASE p = "linkedin"   -> <<"serpapi", "brightdata", "playwright">>
          [] p = "indeed"     -> <<"serpapi", "scraperapi", "playwright">>
          [] p = "stepstone"  -> <<"serpapi", "scraperapi", "playwright">>
          [] OTHER            -> <<"firecrawl", "playwright">>]

PLATFORM_ROUTING ==
    [p \in KnownPlatforms |->
        CASE p = "linkedin"   -> <<"brightdata", "serpapi", "playwright">>
          [] p = "indeed"     -> <<"serpapi", "scraperapi", "playwright">>
          [] p = "stepstone"  -> <<"scraperapi", "playwright">>
          [] OTHER            -> <<"firecrawl", "playwright">>]

SCRAPER_INSTANCES == Tiers

\* Variant of tiers_for: PLATFORM_ROUTING.get(platform, []).
tiers_for_NoDefault(platform) ==
    IF platform \in DOMAIN PLATFORM_ROUTING THEN PLATFORM_ROUTING[platform]
    ELSE <<>>

\* PLATFORM_ROUTING.get(platform, ['playwright'])
tiers_for(platform) ==
    IF platform \in DOMAIN PLATFORM_ROUTING
    THEN PLATFORM_ROUTING[platform]
    ELSE <<"playwright">>

ATS == {"greenhouse", "lever", "workday"}

\* The platform test at the head of each scraper's scrape().
Supports(tier, platform) ==
    CASE tier = "brightdata" -> platform = "linkedin"
      [] tier = "serpapi"    -> platform \in {"linkedin", "indeed"}
      [] tier = "scraperapi" -> platform \in {"indeed", "stepstone"}
      [] tier = "firecrawl"  -> platform \in {"greenhouse", "lever", "ashby", "workday"}
      [] tier = "playwright" -> platform \in {"linkedin", "indeed", "stepstone"} \cup ATS
      [] OTHER               -> FALSE

Min(a, b) == IF a < b THEN a ELSE b

\* Variant of MakesRequest: the platform test comes after the request.
MakesRequest_NoPlatformTest(tier, platform, hasCompany, n) ==
    /\ tier \in SCRAPER_INSTANCES
    /\ CASE tier = "serpapi"    -> n > 0
         [] tier = "firecrawl"  -> hasCompany /\ n > 0
         [] tier = "playwright" -> platform \in ATS => hasCompany
         [] OTHER               -> TRUE

\* Whether scrape() reaches a request (HTTP call or page navigation), which
\* is where it can fail for reasons outside the program, or never return.
MakesRequest(tier, platform, hasCompany, n) ==
    /\ tier \in SCRAPER_INSTANCES
    /\ Supports(tier, platform)
    /\ CASE tier = "serpapi"    -> n > 0
         [] tier = "firecrawl"  -> hasCompany /\ n > 0
         [] tier = "playwright" -> platform \in ATS => hasCompany
         [] OTHER               -> TRUE

\* Variant of RaisesEarly: Playwright's ATS scrape does not ask for a company.
RaisesEarly_CompanyNotRequired(tier, platform, hasCompany) ==
    \/ tier \notin SCRAPER_INSTANCES
    \/ ~Supports(tier, platform)

\* The scraper raises before any request: missing instance (KeyError),
\* unsupported platform (ValueError), ATS query without a company name.
RaisesEarly(tier, platform, hasCompany) ==
    \/ tier \notin SCRAPER_INSTANCES
    \/ ~Supports(tier, platform)
    \/ tier = "playwright" /\ platform \in ATS /\ ~hasCompany

\* The numbers of records a call can return.
Yields(tier, platform, hasCompany, n) ==
    IF RaisesEarly(tier, platform, hasCompany) THEN {}
    ELSE IF ~MakesRequest(tier, platform, hasCompany, n) THEN {0}
    ELSE IF tier \in {"brightdata", "scraperapi"} THEN 0..MaxYield
    ELSE 0..Min(n, MaxYield)

\* The exception classes a call can raise.
Raises(tier, platform, hasCompany, n) ==
    IF RaisesEarly(tier, platform, hasCompany)
    THEN {IF tier \in SCRAPER_INSTANCES THEN "ValueError" ELSE "KeyError"}
    ELSE IF MakesRequest(tier, platform, hasCompany, n) THEN {"ClientError", "TimeoutError"}
    ELSE {}

\* How long a call can take.
Durations(tier, platform, hasCompany, n) ==
    IF MakesRequest(tier, platform, hasCompany, n)
    THEN {"immediate", "long", "never"}
    ELSE {"immediate"}

\* Variant of PlatformLabel: every parser writes BrightData's literal.
PlatformLabel_Linkedin(tier, platform) == "linkedin"

\* The "platform" field a scraper's parser writes into its records: the
\* platform argument, or a literal in the parser chosen by the platform
\* (ScraperAPI, Playwright); BrightData's parser has the one literal.
PlatformLabel(tier, platform) ==
    IF tier = "brightdata" THEN "linkedin" ELSE platform

\* The standard record each _parse_results builds: source and platform.
Jobs(tier, platform, n) ==
    [k \in 1..n |->
        [source |-> tier, platform |-> PlatformLabel(tier, platform), item |-> k]]


\* ------------------------------------------------------------------- state
VARIABLES
    platforms,    \* args.platforms split on ',' (main)
    hasCompany,   \* whether args.query holds an "at <Company>" phrase
    count,        \* args.count
    pc,           \* per task: "ready", "awaiting", "done", "raised"
    idx,          \* per task: position in its tier chain (the for loop)
    tried,        \* per task: tiers of the "Trying <tier>..." lines printed
    outcomes,     \* per task: the outcome line printed for each finished attempt
    call,         \* per task: the scrape() call it is suspended in: how long
                  \* it takes, and whether it sends a request
    result,       \* per task: the dict scrape_platform returned
    waited,       \* per task: time has passed while it was suspended in a call
    mainPc,       \* main: "gather", "save", "done", "aborted", "save_failed"
    stats,        \* main's stats dict
    all_jobs,     \* main's all_jobs list
    output        \* the JSON document written to output_path, if any

\* deduplicate_jobs.py, run on a written jobs file
VARIABLES
    ddPc,         \* "off", "loaded", "once", "twice"
    records,      \* the jobs read from the input file
    deduped,      \* the jobs written by the run
    rededuped     \* the jobs written by a second run on the first run's output

dedupeVars == <<ddPc, records, deduped, rededuped>>

\* BrightDataScraper._poll_results
VARIABLES
    pollPc,       \* "off", "polling", "sleeping", "returned", "raised"
    max_wait,     \* the max_wait argument
    polled,       \* what each GET of the snapshot so far was answered with
    pollErr,      \* the exception class raised, "" if none
    slept         \* seconds spent in asyncio.sleep

pollVars == <<pollPc, max_wait, polled, pollErr, slept>>

\* retry_with_backoff
VARIABLES
    retryPc,      \* "off", "calling", "sleeping", "returned", "raised"
    max_retries,  \* the max_retries argument
    attempt,      \* the loop variable
    calls,        \* how each call of func so far ended
    sleeps,       \* the wait_time of each asyncio.sleep so far
    retryResult   \* what the function returned or raised, "" while running

retryVars == <<retryPc, max_retries, attempt, calls, sleeps, retryResult>>

\* verify-keys.ts
VARIABLES
    env,          \* process.env: name -> value, "undefined" if not set
    vkPc,         \* main: "off", "main", "in_check", "report", "aborted"
    vkIdx,        \* the runCheck call main is at, in declaration order
    results,      \* the results array
    invoked,      \* per service: how often its check function was called
    settled       \* per service: how its check function ended, "" if it did not

verifyVars == <<env, vkPc, vkIdx, results, invoked, settled>>

\* The state of the tools that run apart from the scraper.
toolVars == <<dedupeVars, pollVars, retryVars, verifyVars>>

vars == <<platforms, hasCompany, count, pc, idx, tried, outcomes, call, result,
          waited, mainPc, stats, all_jobs, output, toolVars>>

\* The tool is not part of the run.
DedupeOff ==
    /\ ddPc = "off"
    /\ records = <<>>
    /\ deduped = <<>>
    /\ rededuped = <<>>

PollOff ==
    /\ pollPc = "off"
    /\ max_wait = 0
    /\ polled = <<>>
    /\ pollErr = ""
    /\ slept = 0

RetryOff ==
    /\ retryPc = "off"
    /\ max_retries = 0
    /\ attempt = 0
    /\ calls = <<>>
    /\ sleeps = <<>>
    /\ retryResult = ""

VerifyOff ==
    /\ env = <<>>
    /\ vkPc = "off"
    /\ vkIdx = 0
    /\ results = <<>>
    /\ invoked = <<>>
    /\ settled = <<>>

ToolsOff == DedupeOff /\ PollOff /\ RetryOff /\ VerifyOff

TaskIds == 1..Len(platforms)

NoCall == [dur |-> "none", elapsed |-> FALSE, request |-> FALSE]

Pending(platform) ==
    [platform |-> platform, tier |-> "pending", count |-> 0, jobs |-> <<>>, error |-> ""]

NoStats == [total_jobs |-> 0, by_platform |-> <<>>, by_tier |-> <<>>]

\* All sequences over S of length 1..n.
SeqsUpTo(S, n) == UNION {[1..k -> S] : k \in 1..n}

\* The query reaches the scrapers' behaviour only through the company name
\* the ATS scrapers look for in it.
QueryKinds(ps) ==
    IF \E k \in 1..Len(ps) : ps[k] \in ATS \cup {"ashby"} THEN BOOLEAN ELSE {FALSE}

Init ==
    /\ platforms \in SeqsUpTo(RequestPlatforms, MaxPlatforms)
    /\ hasCompany \in QueryKinds(platforms)
    /\ count \in 0..MaxCount
    /\ pc = [i \in TaskIds |-> "ready"]
    /\ idx = [i \in TaskIds |-> 1]
    /\ tried = [i \in TaskIds |-> <<>>]
    /\ outcomes = [i \in TaskIds |-> <<>>]
    /\ call = [i \in TaskIds |-> NoCall]
    /\ result = [i \in TaskIds |-> Pending(platforms[i])]
    /\ waited = [i \in TaskIds |-> FALSE]
    /\ mainPc = "gather"
    /\ stats = NoStats
    /\ all_jobs = <<>>
    /\ output = <<>>
    /\ ToolsOff

\* ------------------------------------------------------- scrape_platform
\* Variants of Validate: the full count required; the bound rounded down;
\* an empty result never accepted.
Validate_Full(n, c) == n >= c

Validate_Floor(n, c) == n >= c \div 2

Validate_NonEmpty(n, c) == n > 0 /\ 2 * n >= c

\* len(results) >= count * 0.5
Validate(n, c) == 2 * n >= c

\* Variant of Catches: `except ValueError`.
Catches_ValueErrorOnly(e) == e = "ValueError"

\* `except Exception as e`: every exception class a scraper raises here
\* derives from Exception.
Catches(e) == e \in {"ValueError", "KeyError", "ClientError", "TimeoutError", "Exception"}

\* Variant of AllTiersFailedPc: `raise ScrapingError(...)` after the loop.
AllTiersFailedPc_Raise == "raised"

\* After the loop: `return {... 'tier': 'none' ...}`, the coroutine completes.
AllTiersFailedPc == "done"

\* Variant of AfterAttempt: no `return` on acceptance, the loop goes on.
AfterAttempt_NoReturn(k, len, accepted) ==
    IF k < len THEN [pc |-> "ready", idx |-> k + 1]
    ELSE [pc |-> "done", idx |-> k + 1]

\* Where the coroutine stands once attempt k of a chain of length len has
\* its outcome: `return` on acceptance, the next iteration otherwise, the
\* code after the loop when the chain is exhausted.
AfterAttempt(k, len, accepted) ==
    IF accepted THEN [pc |-> "done", idx |-> k]
    ELSE IF k < len THEN [pc |-> "ready", idx |-> k + 1]
    ELSE [pc |-> AllTiersFailedPc, idx |-> k + 1]

\* Variant of Launched: `for p in platforms: await scrape_platform(p, ...)`.
Launched_Sequential(i) == IF i = 1 THEN TRUE ELSE pc[i - 1] = "done"

\* gather(*tasks): every coroutine is scheduled when main awaits gather.
Launched(i) == i \in TaskIds

Accepted(platform, tier, n) ==
    [platform |-> platform, tier |-> tier, count |-> n,
     jobs |-> Jobs(tier, platform, n), error |-> ""]

AllFailed(platform) ==
    [platform |-> platform, tier |-> "none", count |-> 0, jobs |-> <<>>,
     error |-> "All tiers failed"]

\* The dict the coroutine returns when it reaches position `at`.
Returned(i, at, tier, n, accepted) ==
    IF at.pc # "done" THEN result[i]
    ELSE IF accepted THEN Accepted(platforms[i], tier, n)
    ELSE AllFailed(platforms[i])

\* Variant of StartAttempt: the call is started but not awaited.
StartAttempt_NoAwait(i) ==
    /\ mainPc = "gather"
    /\ pc[i] = "ready"
    /\ idx[i] <= Len(tiers_for(platforms[i]))
    /\ tried' = [tried EXCEPT ![i] = Append(@, tiers_for(platforms[i])[idx[i]])]
    /\ idx' = [idx EXCEPT ![i] = @ + 1]
    /\ UNCHANGED <<toolVars, platforms, hasCompany, count, pc, call, outcomes, result, waited,
                   mainPc, stats, all_jobs, output>>

\* `print("Trying ...")`, instance lookup and `await scraper.scrape(...)`:
\* the task suspends in a call whose duration the environment decides.
StartAttempt(i) ==
    /\ mainPc = "gather"
    /\ Launched(i)
    /\ pc[i] = "ready"
    /\ idx[i] <= Len(tiers_for(platforms[i]))
    /\ LET tier == tiers_for(platforms[i])[idx[i]] IN
         /\ tried' = [tried EXCEPT ![i] = Append(@, tier)]
         /\ \E d \in Durations(tier, platforms[i], hasCompany, count) :
                call' = [call EXCEPT ![i] =
                            [dur |-> d, elapsed |-> FALSE,
                             request |-> MakesRequest(tier, platforms[i], hasCompany, count)]]
    /\ pc' = [pc EXCEPT ![i] = "awaiting"]
    /\ UNCHANGED <<toolVars, platforms, hasCompany, count, idx, outcomes, result, waited,
                   mainPc, stats, all_jobs, output>>

CanComplete(i) ==
    /\ mainPc = "gather"
    /\ pc[i] = "awaiting"
    /\ \/ call[i].dur = "immediate"
       \/ call[i].dur = "long" /\ call[i].elapsed

\* The code that runs, without suspending, once the awaited call has its
\* outcome: validation, the printed line, return or the next iteration.
Finish(i, kind, n, at) ==
    LET tier == tiers_for(platforms[i])[idx[i]] IN
    /\ outcomes' = [outcomes EXCEPT ![i] =
           Append(@, [tier |-> tier, kind |-> kind, n |-> n])]
    /\ pc' = [pc EXCEPT ![i] = at.pc]
    /\ idx' = [idx EXCEPT ![i] = at.idx]
    /\ result' = [result EXCEPT ![i] = Returned(i, at, tier, n, kind = "ok")]
    /\ call' = [call EXCEPT ![i] = NoCall]
    /\ UNCHANGED <<toolVars, platforms, hasCompany, count, tried, waited, mainPc, stats,
                   all_jobs, output>>

\* scraper.scrape returns a list of n records.
FetchReturn(i) ==
    /\ CanComplete(i)
    /\ LET tier == tiers_for(platforms[i])[idx[i]]
           len == Len(tiers_for(platforms[i])) IN
       \E n \in Yields(tier, platforms[i], hasCompany, count) :
           IF Validate(n, count)
           THEN Finish(i, "ok", n, AfterAttempt(idx[i], len, TRUE))
           ELSE Finish(i, "insufficient", n, AfterAttempt(idx[i], len, FALSE))

\* scraper.scrape (or the instance lookup) raises.
FetchRaise(i) ==
    /\ CanComplete(i)
    /\ LET tier == tiers_for(platforms[i])[idx[i]]
           len == Len(tiers_for(platforms[i])) IN
       \E e \in Raises(tier, platforms[i], hasCompany, count) :
           IF Catches(e)
           THEN Finish(i, "failed", 0, AfterAttempt(idx[i], len, FALSE))
           ELSE Finish(i, "uncaught", 0, [pc |-> "raised", idx |-> idx[i]])

\* The event loop waits for I/O only when no task is ready to run and no
\* call has its outcome already; time then passes for every pending call.
Tick ==
    /\ mainPc = "gather"
    /\ \A i \in TaskIds : ~(Launched(i) /\ pc[i] = "ready")
    /\ \A i \in TaskIds : call[i].dur # "immediate"
    /\ \E i \in TaskIds : pc[i] = "awaiting" /\ ~call[i].elapsed
    /\ call' = [i \in TaskIds |->
                  IF pc[i] = "awaiting" THEN [call[i] EXCEPT !.elapsed = TRUE] ELSE call[i]]
    /\ waited' = [i \in TaskIds |-> waited[i] \/ pc[i] = "awaiting"]
    /\ UNCHANGED <<toolVars, platforms, hasCompany, count, pc, idx, tried, outcomes, result,
                   mainPc, stats, all_jobs, output>>

\* ------------------------------------------------------------------- main
\* Variant of GatherComplete: asyncio.wait(..., return_when=FIRST_COMPLETED).
GatherComplete_First == \E i \in TaskIds : pc[i] = "done"

\* `await asyncio.gather(*tasks)` resumes main once every task has returned.
GatherComplete == \A i \in TaskIds : pc[i] = "done"

\* Variant of GatherResults: results collected as the tasks complete
\* (asyncio.as_completed), the tasks that never waited first.
GatherResults_AsCompleted ==
    LET fast == {i \in TaskIds : ~waited[i]}
        RECURSIVE InOrder(_)
        InOrder(S) ==
            IF S = {} THEN <<>>
            ELSE LET m == CHOOSE x \in S : \A y \in S : x <= y
                 IN <<result[m]>> \o InOrder(S \ {m})
    IN InOrder(fast) \o InOrder(TaskIds \ fast)

\* `results = await asyncio.gather(*tasks)`: the results in task order.
GatherResults == [i \in TaskIds |-> result[i]]

RECURSIVE Concat(_, _)
Concat(rs, k) == IF k = 0 THEN <<>> ELSE Concat(rs, k - 1) \o rs[k].jobs

RECURSIVE TierTotal(_, _, _)
TierTotal(rs, k, t) ==
    IF k = 0 THEN 0
    ELSE TierTotal(rs, k - 1, t) + (IF rs[k].tier = t THEN Len(rs[k].jobs) ELSE 0)

RECURSIVE Total(_, _)
Total(rs, k) == IF k = 0 THEN 0 ELSE Total(rs, k - 1) + Len(rs[k].jobs)

\* stats['by_platform'][platform] = len(jobs): a later result of the same
\* platform overwrites an earlier one.
ByPlatform(rs) ==
    [p \in {rs[k].platform : k \in 1..Len(rs)} |->
        LET last == CHOOSE k \in 1..Len(rs) :
                        /\ rs[k].platform = p
                        /\ \A j \in (k + 1)..Len(rs) : rs[j].platform # p
        IN Len(rs[last].jobs)]

ByTier(rs) ==
    [t \in {rs[k].tier : k \in 1..Len(rs)} |-> TierTotal(rs, Len(rs), t)]

\* gather returns the results in task order; the aggregation loop follows
\* without suspending.
Aggregate ==
    /\ mainPc = "gather"
    /\ GatherComplete \/ \E i \in TaskIds : pc[i] = "raised"
    /\ IF \E i \in TaskIds : pc[i] = "raised"
       THEN /\ mainPc' = "aborted"
            /\ UNCHANGED <<stats, all_jobs>>
       ELSE LET rs == GatherResults IN
            /\ mainPc' = "save"
            /\ all_jobs' = Concat(rs, Len(rs))
            /\ stats' = [total_jobs |-> Total(rs, Len(rs)),
                         by_platform |-> ByPlatform(rs),
                         by_tier |-> ByTier(rs)]
    /\ UNCHANGED <<toolVars, platforms, hasCompany, count, pc, idx, tried, outcomes, call,
                   result, waited, output>>

\* open(output_path, 'w') and json.dump: the file is written, or open/dump
\* raises; nothing in main catches it, so the exception leaves main and
\* asyncio.run(main()) and the process ends: no step follows "save_failed".
Save ==
    /\ mainPc = "save"
    /\ \E ok \in BOOLEAN :
         IF ok
         THEN /\ output' = <<[platforms |-> platforms, stats |-> stats, jobs |-> all_jobs]>>
              /\ mainPc' = "done"
         ELSE /\ output' = output
              /\ mainPc' = "save_failed"
    /\ UNCHANGED <<toolVars, platforms, hasCompany, count, pc, idx, tried, outcomes, call,
                   result, waited, stats, all_jobs>>

Next ==
    \/ \E i \in TaskIds : StartAttempt(i)
    \/ \E i \in TaskIds : FetchReturn(i)
    \/ \E i \in TaskIds : FetchRaise(i)
    \/ Tick
    \/ Aggregate
    \/ Save

Spec == Init /\ [][Next]_vars

\* Runs for one platform, over every platform name of the routing table and
\* one name outside it.
AllPlatforms == KnownPlatforms \cup {"xing"}

InitOne ==
    /\ platforms \in [1..1 -> AllPlatforms]
    /\ hasCompany \in QueryKinds(platforms)
    /\ count \in 0..MaxCount
    /\ pc = [i \in TaskIds |-> "ready"]
    /\ idx = [i \in TaskIds |-> 1]
    /\ tried = [i \in TaskIds |-> <<>>]
    /\ outcomes = [i \in TaskIds |-> <<>>]
    /\ call = [i \in TaskIds |-> NoCall]
    /\ result = [i \in TaskIds |-> Pending(platforms[i])]
    /\ waited = [i \in TaskIds |-> FALSE]
    /\ mainPc = "gather"
    /\ stats = NoStats
    /\ all_jobs = <<>>
    /\ output = <<>>
    /\ ToolsOff

SpecOne == InitOne /\ [][Next]_vars

\* The event loop runs every enabled step eventually.
FairSpec == Spec /\ WF_vars(Next)

\* ---------------------------------------------------- deduplicate_jobs.py
\* bound
MaxRecords == 3

\* Field values are strings, written as tuples of characters.
Titles == {<<"A", " ", "B">>, <<"a", " ", " ", "b">>, <<"a", "b">>}
Companies == {<<"X">>, <<"y">>}
Locations == {<<"Z">>, <<"w">>}
Sources == {"brightdata", "serpapi"}

JobRecords ==
    [title : Titles, company : Companies, location : Locations, source : Sources]

Lower(ch) ==
    CASE ch = "A" -> "a"
      [] ch = "B" -> "b"
      [] ch = "X" -> "x"
      [] ch = "Z" -> "z"
      [] OTHER    -> ch

\* Runs of blanks become one blank.
RECURSIVE CollapseBlanks(_)
CollapseBlanks(s) ==
    IF Len(s) <= 1 THEN s
    ELSE IF s[1] = " " /\ s[2] = " " THEN CollapseBlanks(Tail(s))
    ELSE <<s[1]>> \o CollapseBlanks(Tail(s))

\* Lower-cased, whitespace-collapsed.
Normalize(s) == CollapseBlanks([k \in 1..Len(s) |-> Lower(s[k])])

\* Variant of IdentityKey: "same title + company", without the location.
IdentityKey_TitleCompany(r) == <<Normalize(r.title), Normalize(r.company)>>

IdentityKey(r) == <<Normalize(r.title), Normalize(r.company), Normalize(r.location)>>

\* Variant of Dedupe: a repeated key is forgotten when its record is dropped.
RECURSIVE DedupeFrom_Toggle(_, _)
DedupeFrom_Toggle(rs, seen) ==
    IF rs = <<>> THEN <<>>
    ELSE LET key == IdentityKey(Head(rs)) IN
         IF key \in seen THEN DedupeFrom_Toggle(Tail(rs), seen \ {key})
         ELSE <<Head(rs)>> \o DedupeFrom_Toggle(Tail(rs), seen \cup {key})

Dedupe_Toggle(rs) == DedupeFrom_Toggle(rs, {})

\* One pass in input order: a record is kept when its key was not seen yet.
RECURSIVE DedupeFrom(_, _)
DedupeFrom(rs, seen) ==
    IF rs = <<>> THEN <<>>
    ELSE LET key == IdentityKey(Head(rs)) IN
         IF key \in seen THEN DedupeFrom(Tail(rs), seen)
         ELSE <<Head(rs)>> \o DedupeFrom(Tail(rs), seen \cup {key})

Dedupe(rs) == DedupeFrom(rs, {})

ScraperOff ==
    /\ platforms = <<>>
    /\ hasCompany = FALSE
    /\ count = 0
    /\ pc = <<>>
    /\ idx = <<>>
    /\ tried = <<>>
    /\ outcomes = <<>>
    /\ call = <<>>
    /\ result = <<>>
    /\ waited = <<>>
    /\ mainPc = "off"
    /\ stats = NoStats
    /\ all_jobs = <<>>
    /\ output = <<>>

scraperVars == <<platforms, hasCompany, count, pc, idx, tried, outcomes, call, result,
                 waited, mainPc, stats, all_jobs, output>>

InitDedupe ==
    /\ ScraperOff
    /\ PollOff
    /\ RetryOff
    /\ VerifyOff
    /\ ddPc = "loaded"
    /\ records \in UNION {[1..k -> JobRecords] : k \in 0..MaxRecords}
    /\ deduped = <<>>
    /\ rededuped = <<>>

DedupeRun ==
    /\ ddPc = "loaded"
    /\ deduped' = Dedupe(records)
    /\ ddPc' = "once"
    /\ UNCHANGED <<scraperVars, pollVars, retryVars, verifyVars, records, rededuped>>

DedupeAgain ==
    /\ ddPc = "once"
    /\ rededuped' = Dedupe(deduped)
    /\ ddPc' = "twice"
    /\ UNCHANGED <<scraperVars, pollVars, retryVars, verifyVars, records, deduped>>

NextDedupe ==
    \/ DedupeRun
    \/ DedupeAgain

SpecDedupe == InitDedupe /\ [][NextDedupe]_vars

\* ------------------------------------------ BrightDataScraper._poll_results
\* bound
MaxWait == 17

\* `max_wait=300`
DefaultMaxWait == 300

\* Variant of PollLimit: one poll per second of max_wait.
PollLimit_PerSecond(w) == w

\* range(max_wait // 5)
PollLimit(w) == w \div 5

\* What a GET of the snapshot can be answered with: a status, or an HTTP
\* error that raise_for_status turns into an exception.
PollAnswers == {"ready", "failed", "running", "http_error"}

InitPoll ==
    /\ ScraperOff
    /\ DedupeOff
    /\ RetryOff
    /\ VerifyOff
    /\ pollPc = "polling"
    /\ max_wait \in 0..MaxWait
    /\ polled = <<>>
    /\ pollErr = ""
    /\ slept = 0

\* One pass through the loop body up to the sleep.
PollGet ==
    /\ pollPc = "polling"
    /\ Len(polled) < PollLimit(max_wait)
    /\ \E a \in PollAnswers :
         /\ polled' = Append(polled, a)
         /\ pollPc' = CASE a = "ready"   -> "returned"
                        [] a = "running" -> "sleeping"
                        [] OTHER         -> "raised"
         /\ pollErr' = CASE a = "failed"     -> "Exception"
                         [] a = "http_error" -> "ClientError"
                         [] OTHER            -> ""
    /\ UNCHANGED <<scraperVars, dedupeVars, retryVars, verifyVars, max_wait, slept>>

\* await asyncio.sleep(5)
PollSleep ==
    /\ pollPc = "sleeping"
    /\ slept' = slept + 5
    /\ pollPc' = "polling"
    /\ UNCHANGED <<scraperVars, dedupeVars, retryVars, verifyVars, max_wait, polled, pollErr>>

\* The loop is used up: raise TimeoutError.
PollTimeout ==
    /\ pollPc = "polling"
    /\ Len(polled) >= PollLimit(max_wait)
    /\ pollPc' = "raised"
    /\ pollErr' = "TimeoutError"
    /\ UNCHANGED <<scraperVars, dedupeVars, retryVars, verifyVars, max_wait, polled, slept>>

NextPoll ==
    \/ PollGet
    \/ PollSleep
    \/ PollTimeout

SpecPoll == InitPoll /\ [][NextPoll]_vars

\* ------------------------------------------------------ retry_with_backoff
\* bound
MaxRetries == 5

\* What func can return, and what it can raise besides RateLimitError.
FuncValues == {"v1", "v2", "v3"}
OtherErrors == {"ClientError", "ValueError"}

\* Variant of WaitTime: 2 * attempt.
WaitTime_Linear(a) == 2 * a

\* wait_time = 2 ** attempt
WaitTime(a) == 2 ^ a

InitRetry ==
    /\ ScraperOff
    /\ DedupeOff
    /\ PollOff
    /\ VerifyOff
    /\ retryPc = "calling"
    /\ max_retries \in 0..MaxRetries
    /\ attempt = 0
    /\ calls = <<>>
    /\ sleeps = <<>>
    /\ retryResult = ""

\* `return await func()` and the except clause up to the sleep.
RetryCall ==
    /\ retryPc = "calling"
    /\ attempt < max_retries
    /\ \E o \in FuncValues \cup OtherErrors \cup {"RateLimitError"} :
         /\ calls' = Append(calls, o)
         /\ IF o \in FuncValues
            THEN retryPc' = "returned" /\ retryResult' = o
            ELSE IF o \in OtherErrors \/ attempt = max_retries - 1
            THEN retryPc' = "raised" /\ retryResult' = o
            ELSE retryPc' = "sleeping" /\ retryResult' = ""
    /\ UNCHANGED <<scraperVars, dedupeVars, pollVars, verifyVars, max_retries, attempt, sleeps>>

\* await asyncio.sleep(wait_time), then the next pass of the loop.
RetrySleep ==
    /\ retryPc = "sleeping"
    /\ sleeps' = Append(sleeps, WaitTime(attempt))
    /\ attempt' = attempt + 1
    /\ retryPc' = "calling"
    /\ UNCHANGED <<scraperVars, dedupeVars, pollVars, verifyVars, max_retries, calls, retryResult>>

\* range(max_retries) is empty: the function falls off its end.
RetryNoAttempt ==
    /\ retryPc = "calling"
    /\ attempt >= max_retries
    /\ retryPc' = "returned"
    /\ retryResult' = "None"
    /\ UNCHANGED <<scraperVars, dedupeVars, pollVars, verifyVars, max_retries, attempt, calls, sleeps>>

NextRetry ==
    \/ RetryCall
    \/ RetrySleep
    \/ RetryNoAttempt

SpecRetry == InitRetry /\ [][NextRetry]_vars

\* ---------------------------------------------------------- verify-keys.ts
\* The runCheck calls of main, in declaration order: name, env keys, and
\* the shape of the check function.
Services ==
    << [name |-> "OpenAI",       keys |-> {"OPENAI_API_KEY"},     kind |-> "fetchCheck"],
       [name |-> "Anthropic",    keys |-> {"ANTHROPIC_API_KEY"},  kind |-> "fetchCheck"],
       [name |-> "Perplexity",   keys |-> {"Perplexity_API_KEY"}, kind |-> "fetchCheck"],
       [name |-> "GitHub",       keys |-> {"GITHUB_PAT"},         kind |-> "fetchCheck"],
       [name |-> "Supabase",     keys |-> {"SUPABASE_URL", "SUPABASE_ANON_KEY"},
                                                                  kind |-> "supabase"],
       [name |-> "Stripe",       keys |-> {"STRIPE_SECRET_KEY"},  kind |-> "fetchCheck"],
       [name |-> "Resend",       keys |-> {"RESEND_API_KEY"},     kind |-> "fetchCheck"],
       [name |-> "Brave Search", keys |-> {"BRAVE_API_KEY"},      kind |-> "fetchCheck"],
       [name |-> "SerpAPI",      keys |-> {"SerpAPI"},            kind |-> "fetchCheck"],
       [name |-> "Apify",        keys |-> {"APIFY_API_TOKEN"},    kind |-> "fetchCheck"],
       [name |-> "Sentry",       keys |-> {"SENTRY_AUTH_TOKEN"},  kind |-> "fetchCheck"],
       [name |-> "Vercel",       keys |-> {"VERCEL_TOKEN"},       kind |-> "fetchCheck"],
       [name |-> "PostHog",      keys |-> {"POSTHOG_API_KEY", "POSTHOG_HOST"},
                                                                  kind |-> "posthog"],
       [name |-> "Context7",     keys |-> {"Context7_API_KEY"},   kind |-> "fetchCheck"],
       [name |-> "Trigger.dev",  keys |-> {"TRIGGER_API_KEY"},    kind |-> "constant"] >>

\* The env keys the runs differ in; every other key is not set.
VariedKeys ==
    {"OPENAI_API_KEY", "SUPABASE_URL", "SUPABASE_ANON_KEY",
     "POSTHOG_API_KEY", "POSTHOG_HOST", "TRIGGER_API_KEY"}

\* A key is not set, set to the empty string (KEY= in .env), or set to a value.
EnvValues == {"undefined", "", "tr_value"}

\* process.env[k]
EnvOf(e, k) == IF k \in DOMAIN e THEN e[k] ELSE "undefined"

\* JavaScript truthiness of process.env[k]: undefined and "" are falsy.
Truthy(v) == v \notin {"undefined", ""}

\* Variant of ActiveKey: every listed key has to be set.
ActiveKey_Every(keys, e) == \A k \in keys : Truthy(EnvOf(e, k))

\* keys.find(k => process.env[k]) finds a key.
ActiveKey(keys, e) == \E k \in keys : Truthy(EnvOf(e, k))

\* How a check function can end: it resolves to true or false, or throws.
CheckOutcomes(svc, e) ==
    CASE svc.kind = "fetchCheck" -> {"true", "throws"}
      [] svc.kind = "supabase"   ->
            IF \A k \in svc.keys : Truthy(EnvOf(e, k))
            THEN {"true", "false", "throws"} ELSE {"throws"}
      [] svc.kind = "posthog"    ->
            IF Truthy(EnvOf(e, "POSTHOG_API_KEY"))
            THEN {"true", "false", "throws"} ELSE {"throws"}
      [] OTHER                   -> {"true"}

\* Variant of OnThrow: runCheck has no catch clause.
OnThrow_Propagate == "aborted"

\* catch (error): push FAIL and return to main.
OnThrow == "main"

InitVerify ==
    /\ ScraperOff
    /\ DedupeOff
    /\ PollOff
    /\ RetryOff
    /\ env \in [VariedKeys -> EnvValues]
    /\ vkPc = "main"
    /\ vkIdx = 1
    /\ results = <<>>
    /\ invoked = [k \in 1..Len(Services) |-> 0]
    /\ settled = [k \in 1..Len(Services) |-> ""]

\* runCheck without an active key: push SKIPPED and return.
RunCheckSkip ==
    /\ vkPc = "main" /\ vkIdx <= Len(Services)
    /\ ~ActiveKey(Services[vkIdx].keys, env)
    /\ results' = Append(results, [service |-> Services[vkIdx].name, status |-> "SKIPPED",
                                   message |-> "Missing env var"])
    /\ vkIdx' = vkIdx + 1
    /\ UNCHANGED <<scraperVars, dedupeVars, pollVars, retryVars, env, vkPc, invoked, settled>>

\* runCheck with an active key: call checkFn and await it.
RunCheckInvoke ==
    /\ vkPc = "main" /\ vkIdx <= Len(Services)
    /\ ActiveKey(Services[vkIdx].keys, env)
    /\ invoked' = [invoked EXCEPT ![vkIdx] = @ + 1]
    /\ vkPc' = "in_check"
    /\ UNCHANGED <<scraperVars, dedupeVars, pollVars, retryVars, env, vkIdx, results, settled>>

\* The awaited check function settles.
CheckSettles ==
    /\ vkPc = "in_check"
    /\ \E o \in CheckOutcomes(Services[vkIdx], env) :
         /\ settled' = [settled EXCEPT ![vkIdx] = o]
         /\ IF o = "throws"
            THEN /\ vkPc' = OnThrow
                 /\ results' = IF OnThrow = "main"
                               THEN Append(results, [service |-> Services[vkIdx].name,
                                                     status |-> "FAIL", message |-> "error"])
                               ELSE results
            ELSE /\ vkPc' = "main"
                 /\ results' = Append(results,
                                  [service |-> Services[vkIdx].name,
                                   status |-> IF o = "true" THEN "PASS" ELSE "FAIL",
                                   message |-> ""])
         /\ vkIdx' = IF vkPc' = "main" THEN vkIdx + 1 ELSE vkIdx
    /\ UNCHANGED <<scraperVars, dedupeVars, pollVars, retryVars, env, invoked>>

\* main reaches the report.
Report ==
    /\ vkPc = "main" /\ vkIdx > Len(Services)
    /\ vkPc' = "report"
    /\ UNCHANGED <<scraperVars, dedupeVars, pollVars, retryVars, env, vkIdx, results,
                   invoked, settled>>

NextVerify ==
    \/ RunCheckSkip
    \/ RunCheckInvoke
    \/ CheckSettles
    \/ Report

SpecVerify == InitVerify /\ [][NextVerify]_vars

\* ------------------------------------------------------------- properties
Chain(i) == tiers_for(platforms[i])

\* ceil(c * 0.5)
CeilHalf(c) == (c + 1) \div 2

\* Attempt k of task i returned (did not raise) at least the threshold.
Met(i, k) ==
    /\ outcomes[i][k].kind \in {"ok", "insufficient"}
    /\ outcomes[i][k].n >= CeilHalf(count)

TotalFailure(i) ==
    /\ Len(outcomes[i]) = Len(Chain(i))
    /\ \A k \in 1..Len(outcomes[i]) : ~Met(i, k)

Reported == mainPc \in {"save", "done", "save_failed"}

\* C1: the tiers a task attempts are a prefix of its platform's chain, in
\* chain order, each at most once and none skipped, and no tier is attempted
\* after an attempt whose record count met the yield threshold.
C1_AttemptsFollowChain ==
    \A i \in TaskIds :
        /\ Len(tried[i]) <= Len(Chain(i))
        /\ tried[i] = SubSeq(Chain(i), 1, Len(tried[i]))
        /\ \A a, b \in 1..Len(tried[i]) : a # b => tried[i][a] # tried[i][b]
        /\ \A k \in 1..Len(outcomes[i]) : Met(i, k) => Len(tried[i]) = k

C1_Witness ==
    \E i \in TaskIds :
        /\ Len(Chain(i)) = 3
        /\ pc[i] = "done"
        /\ Len(tried[i]) = 2
        /\ Met(i, 2)

\* C2: the returned dict names the first tier in chain order whose attempt
\* returned and met the threshold, with that attempt's record count, and no
\* later tier is attempted; it names "none" with zero records if there is
\* no such attempt.
C2_FirstSufficientTierWins ==
    \A i \in TaskIds :
        pc[i] = "done" =>
            LET met == {k \in 1..Len(outcomes[i]) : Met(i, k)} IN
            IF met = {}
            THEN result[i].tier = "none" /\ result[i].count = 0 /\ result[i].jobs = <<>>
            ELSE LET k == CHOOSE m \in met : \A o \in met : m <= o IN
                 /\ result[i].tier = Chain(i)[k]
                 /\ result[i].count = outcomes[i][k].n
                 /\ Len(result[i].jobs) = outcomes[i][k].n
                 /\ Len(tried[i]) = k
                 /\ Len(outcomes[i]) = k

\* Chain [A, B, C], desired count 3: A returns 1, B returns 2.
C2_Witness ==
    \E i \in TaskIds :
        /\ Len(Chain(i)) = 3
        /\ count = 3
        /\ pc[i] = "done"
        /\ Len(outcomes[i]) = 2
        /\ outcomes[i][1].kind = "insufficient" /\ outcomes[i][1].n = 1
        /\ outcomes[i][2].n = 2
        /\ result[i].tier = Chain(i)[2]
        /\ result[i].count = 2
        /\ Len(tried[i]) = 2

\* C3: a returned dict with a tier other than "none" carries at least
\* ceil(count * 0.5) records, unless count is 0.
C3_AcceptedMeetsThreshold ==
    \A i \in TaskIds :
        (pc[i] = "done" /\ result[i].tier # "none" /\ count # 0) =>
            /\ result[i].count >= CeilHalf(count)
            /\ Len(result[i].jobs) >= CeilHalf(count)

C3_Witness ==
    \E i \in TaskIds :
        /\ count = MaxCount
        /\ pc[i] = "done"
        /\ result[i].tier = Chain(i)[1]
        /\ result[i].count = CeilHalf(count)

C5_ExceptionsStayInAttempt ==
    /\ mainPc # "aborted"
    /\ \A i \in TaskIds :
        /\ pc[i] # "raised"
        /\ \A k \in 1..Len(outcomes[i]) :
            /\ outcomes[i][k].kind # "uncaught"
            /\ (outcomes[i][k].kind = "failed" /\ k < Len(Chain(i))) =>
                  \/ Len(tried[i]) > k /\ tried[i][k + 1] = Chain(i)[k + 1]
                  \/ pc[i] = "ready" /\ idx[i] = k + 1 /\ Len(tried[i]) = k

\* A request failed at tier 1 and tier 2 was attempted.
C5_Witness ==
    \E i \in TaskIds :
        /\ Len(outcomes[i]) >= 1
        /\ outcomes[i][1].kind = "failed"
        /\ MakesRequest(Chain(i)[1], platforms[i], hasCompany, count)
        /\ Len(tried[i]) >= 2

\* C6: every run completes: main gets past gather even when a call never
\* returns, because the attempt is ended when its timeout expires.
C6_RunCompletes == <>(mainPc # "gather")

C8_FastCompletesFirst ==
    \A i, j \in TaskIds :
        (waited[j] /\ ~waited[i]) => pc[i] = "done"

C8_Witness ==
    \E i, j \in TaskIds :
        /\ j < i
        /\ pc[i] = "done" /\ pc[j] = "done"
        /\ ~waited[i] /\ Len(outcomes[i]) = 1 /\ result[i].tier = Chain(i)[1]
        /\ waited[j] /\ Len(outcomes[j]) = 2
        /\ outcomes[j][1].kind = "failed" /\ result[j].tier = Chain(j)[2]

\* C9: within one task the attempts are sequential: at most one call is in
\* flight, and a tier is tried only when every earlier attempt has its
\* outcome.
C9_OneCallInFlight ==
    \A i \in TaskIds :
        /\ Len(tried[i]) <= Len(outcomes[i]) + 1
        /\ Len(tried[i]) = Len(outcomes[i]) + 1 <=> pc[i] = "awaiting"

C9_Witness ==
    \E i, j \in TaskIds :
        /\ i # j
        /\ pc[i] = "awaiting" /\ Len(tried[i]) = 2 /\ Len(outcomes[i]) = 1
        /\ pc[j] = "awaiting"

\* C10: main aggregates and writes the output only after every task has
\* returned: no statistics, job list or file exist while a task is running.
C10_ReportAfterAllDone ==
    (Reported \/ stats # NoStats \/ all_jobs # <<>> \/ output # <<>>) =>
        \A i \in TaskIds : pc[i] = "done"

C10_Witness ==
    /\ Len(platforms) = 2
    /\ mainPc = "done"
    /\ Len(output) = 1
    /\ output[1].stats.total_jobs > 0
    /\ waited[1] /\ ~waited[2]

\* The distinct platform names of the run.
Requested == {platforms[i] : i \in TaskIds}

\* C11: each requested platform is resolved once per run and has exactly one
\* result, also when the platform list names it more than once: no two
\* tasks work on the same platform, and the results gathered are as many as
\* the distinct platforms requested.
C11_OneResultPerDomain ==
    /\ \A i, j \in TaskIds :
          (platforms[i] = platforms[j] /\ tried[i] # <<>> /\ tried[j] # <<>>) => i = j
    /\ Reported => Len(GatherResults) = Cardinality(Requested)

\* The sum of the values of a dict of counts.
RECURSIVE SumOf(_)
SumOf(f) ==
    IF DOMAIN f = {} THEN 0
    ELSE LET k == CHOOSE x \in DOMAIN f : TRUE
         IN f[k] + SumOf([x \in DOMAIN f \ {k} |-> f[x]])

\* C12: in every report, for any platform list, total_jobs equals the sum
\* of the by_platform counts and the sum of the by_tier counts, and each
\* platform's by_platform count is the record count of the result of every
\* task that resolved that platform.
C12_CountsAddUp ==
    Reported =>
        /\ stats.total_jobs = SumOf(stats.by_platform)
        /\ stats.total_jobs = SumOf(stats.by_tier)
        /\ \A j \in TaskIds :
              /\ platforms[j] \in DOMAIN stats.by_platform
              /\ stats.by_platform[platforms[j]] = result[j].count

\* What a written document says about the tier of platform p: the source of
\* the records it holds for p or, for a platform without records, the
\* by_tier keys that have no records either.
StatedTiers(doc, p) ==
    LET mine == {k \in 1..Len(doc.jobs) : doc.jobs[k].platform = p} IN
    IF mine # {} THEN {doc.jobs[k].source : k \in mine}
    ELSE {t \in DOMAIN doc.stats.by_tier : doc.stats.by_tier[t] = 0}

\* C13: the written document states, for every requested platform, its
\* record count and its tier ("none" included), so the tier of every
\* platform, also of one without records, can be read from the document
\* alone.
C13_TierPerDomainPersisted ==
    \A d \in 1..Len(output) : \A j \in TaskIds :
        /\ platforms[j] \in DOMAIN output[d].stats.by_platform
        /\ output[d].stats.by_platform[platforms[j]] = result[j].count
        /\ StatedTiers(output[d], platforms[j]) = {result[j].tier}

\* C14: when writing the output fails, the report and the records are still
\* held and writing can be tried again without any scraper being called
\* again: after a failed save, the save step is still possible.
C14_SaveCanBeRetried ==
    mainPc = "save_failed" =>
        /\ stats.total_jobs = Len(all_jobs)
        /\ ENABLED Save

\* C15 (as claimed): with a desired count of zero the first tier attempted
\* is accepted whatever its attempt produced: once the first attempt has its
\* outcome, the result names the first tier of the chain and the attempt
\* history has length 1.
C15_ZeroCountFirstAttemptAccepted ==
    \A i \in TaskIds :
        (count = 0 /\ Len(outcomes[i]) >= 1) =>
            /\ pc[i] = "done"
            /\ result[i].tier = Chain(i)[1]
            /\ Len(tried[i]) = 1 /\ Len(outcomes[i]) = 1

\* C15 (amended): with a desired count of zero every attempt whose call
\* returns a list is accepted whatever the number of records, so when the
\* first tier's call returns, the result names the first tier of the chain
\* and the attempt history has length 1; an attempt that raises is not
\* accepted.
C15_ZeroCountFirstReturnAccepted ==
    \A i \in TaskIds :
        count = 0 =>
            \A k \in 1..Len(outcomes[i]) :
                IF outcomes[i][k].kind = "failed"
                THEN result[i].tier # Chain(i)[k]
                ELSE /\ outcomes[i][k].kind = "ok"
                     /\ pc[i] = "done"
                     /\ result[i].tier = Chain(i)[k]
                     /\ result[i].count = outcomes[i][k].n
                     /\ Len(tried[i]) = k /\ Len(outcomes[i]) = k

\* Count 0: the first tier returned an empty list and was accepted.
C15_Witness ==
    \E i \in TaskIds :
        /\ count = 0
        /\ pc[i] = "done"
        /\ outcomes[i] = <<[tier |-> Chain(i)[1], kind |-> "ok", n |-> 0]>>
        /\ result[i].tier = Chain(i)[1]
        /\ Len(tried[i]) = 1

\* C16: tiers_for returns the configured chain for each of the seven known
\* platforms and the one-tier chain <<"playwright">> for any other name,
\* and that is the chain the task walks from its first tier.
C16_TiersForChains ==
    \A i \in TaskIds :
        LET p == platforms[i] IN
        /\ p = "linkedin" => Chain(i) = <<"brightdata", "serpapi", "playwright">>
        /\ p = "indeed" => Chain(i) = <<"serpapi", "scraperapi", "playwright">>
        /\ p = "stepstone" => Chain(i) = <<"scraperapi", "playwright">>
        /\ p \in {"greenhouse", "lever", "workday", "ashby"} =>
              Chain(i) = <<"firecrawl", "playwright">>
        /\ p \notin KnownPlatforms => Chain(i) = <<"playwright">>
        /\ Len(Chain(i)) >= 1
        /\ tried[i] # <<>> => tried[i][1] = Chain(i)[1]

\* An unknown platform was resolved over the one-tier fallback chain.
C16_Witness ==
    \E i \in TaskIds :
        /\ platforms[i] \notin KnownPlatforms
        /\ tried[i] = <<"playwright">>
        /\ pc[i] = "done"

C18_ProvenanceTruthful ==
    /\ \A i \in TaskIds : \A k \in 1..Len(result[i].jobs) :
          /\ result[i].jobs[k].source = result[i].tier
          /\ result[i].jobs[k].source \in Tiers
          /\ result[i].jobs[k].platform = platforms[i]
    /\ \A k \in 1..Len(all_jobs) :
          \E i \in TaskIds :
              /\ all_jobs[k].source = result[i].tier
              /\ all_jobs[k].platform = platforms[i]
    /\ \A d \in 1..Len(output) : \A k \in 1..Len(output[d].jobs) :
          \E i \in TaskIds :
              /\ output[d].jobs[k].source = result[i].tier
              /\ output[d].jobs[k].platform = platforms[i]

\* Records of two platforms from two different scrapers, one of them not
\* BrightData, in the written document.
C18_Witness ==
    /\ Len(output) = 1
    /\ \E a, b \in 1..Len(output[1].jobs) :
          /\ output[1].jobs[a].platform = "linkedin"
          /\ output[1].jobs[a].source = "brightdata"
          /\ output[1].jobs[b].platform = "stepstone"
          /\ output[1].jobs[b].source = "playwright"

\* C19: every scrape(platform, query, count) call returns at most count
\* records, so no returned result holds more records than the desired count.
C19_AtMostCountRecords ==
    \A i \in TaskIds :
        /\ \A k \in 1..Len(outcomes[i]) : outcomes[i][k].n <= count
        /\ result[i].count <= count
        /\ Len(result[i].jobs) <= count

\* The position in the aggregated list before the first record of task i.
RECURSIVE Offset(_)
Offset(i) == IF i = 1 THEN 0 ELSE Offset(i - 1) + Len(result[i - 1].jobs)

\* C20: the aggregated record list, and the list written, hold the tasks'
\* records in the order of the platform list and, within a task, in the
\* order of the accepted tier's list, whatever the order in which the tasks
\* completed.
C20_AggregationOrder ==
    Reported =>
        /\ Len(all_jobs) = Offset(Len(platforms) + 1)
        /\ \A i \in TaskIds : \A k \in 1..Len(result[i].jobs) :
              all_jobs[Offset(i) + k] = result[i].jobs[k]
        /\ \A d \in 1..Len(output) : output[d].jobs = all_jobs

\* The second task completed before the first, both with records, and the
\* first task's records come first in the document.
C20_Witness ==
    /\ Len(platforms) = 2
    /\ platforms[1] # platforms[2]
    /\ waited[1] /\ ~waited[2]
    /\ Len(result[1].jobs) = 2 /\ Len(result[2].jobs) >= 1
    /\ Len(output) = 1
    /\ output[1].jobs[1] = result[1].jobs[1]
    /\ output[1].jobs[2] = result[1].jobs[2]
    /\ output[1].jobs[3] = result[2].jobs[1]

\* C21: dedupe is idempotent: a second run on the output of a run gives
\* that output again, for any record sequence.
C21_DedupeIdempotent ==
    ddPc = "twice" => rededuped = deduped

\* Three records of one key, in different spellings, went through two runs.
C21_Witness ==
    /\ ddPc = "twice"
    /\ Len(records) = 3
    /\ \A a, b \in 1..3 :
          /\ Normalize(records[a].title) = Normalize(records[b].title)
          /\ records[a].company = records[b].company
          /\ records[a].location = records[b].location
    /\ records[1].title # records[2].title
    /\ Len(deduped) = 1 /\ Len(rededuped) = 1

\* The positions of the records that are the first of their key.
FirstSeen(rs) ==
    {i \in 1..Len(rs) :
        \A j \in 1..(i - 1) :
            \/ Normalize(rs[j].title) # Normalize(rs[i].title)
            \/ Normalize(rs[j].company) # Normalize(rs[i].company)
            \/ Normalize(rs[j].location) # Normalize(rs[i].location)}

C23_RoutingAsTested ==
    \A i \in TaskIds :
        LET p == platforms[i]
            first == IF tried[i] = <<>> THEN "nothing" ELSE tried[i][1]
            never(t) == \A k \in 1..Len(tried[i]) : tried[i][k] # t
        IN
        /\ p = "linkedin" => first \in {"nothing", "brightdata"} /\ never("scraperapi")
        /\ p = "indeed" => first \in {"nothing", "serpapi"}
        /\ p = "stepstone" => first \in {"nothing", "scraperapi"} /\ never("serpapi")
        /\ p = "greenhouse" => first \in {"nothing", "firecrawl"}
        /\ (pc[i] = "done" /\ p \in KnownPlatforms) => first # "nothing"

\* A stepstone task walked its whole chain, without SerpAPI.
C23_Witness ==
    \E i \in TaskIds :
        /\ platforms[i] = "stepstone"
        /\ pc[i] = "done"
        /\ tried[i] = <<"scraperapi", "playwright">>

\* C24: LinkedIn is only ever scraped through BrightData or SerpAPI: no
\* task for linkedin attempts the playwright tier, whatever failed before.
C24_NoPlaywrightForLinkedin ==
    \A i \in TaskIds :
        platforms[i] = "linkedin" =>
            \A k \in 1..Len(tried[i]) : tried[i][k] \in {"brightdata", "serpapi"}

\* C25: every tier of every chain serves its platform: no task, for a
\* configured or an unknown platform, attempts a tier whose scraper rejects
\* the platform as unsupported.
C25_EveryTierServesItsDomain ==
    \A i \in TaskIds :
        /\ \A k \in 1..Len(tried[i]) : Supports(tried[i][k], platforms[i])
        /\ pc[i] = "done" => \A k \in 1..Len(Chain(i)) : Supports(Chain(i)[k], platforms[i])

C27_PollBounded ==
    LET n == Len(polled)
        open(k) == polled[k] = "running"
    IN
    /\ DefaultMaxWait \div 5 = 60
    /\ pollPc # "off" =>
        /\ n <= max_wait \div 5
        /\ \A k \in 1..(n - 1) : open(k)
        /\ pollPc = "returned" <=> (n >= 1 /\ polled[n] = "ready")
        /\ (n >= 1 /\ polled[n] = "failed") => (pollPc = "raised" /\ pollErr = "Exception")
        /\ pollErr = "TimeoutError" <=>
              (pollPc = "raised" /\ n = max_wait \div 5 /\ \A k \in 1..n : open(k))
        /\ (n = max_wait \div 5 /\ \A k \in 1..n : open(k)) =>
              (pollPc \in {"sleeping", "polling", "raised"} /\ ~ENABLED PollGet)
        /\ pollPc = "raised" => Catches(pollErr)
        /\ pollPc \in {"returned", "raised"} => ~ENABLED NextPoll

\* max_wait 15: three polls answered "running", then TimeoutError.
C27_Witness ==
    /\ max_wait = 15
    /\ polled = <<"running", "running", "running">>
    /\ pollPc = "raised"
    /\ pollErr = "TimeoutError"

\* C28: retry_with_backoff calls func at most max_retries times; it returns
\* the result of the first call that succeeds and calls func no more; a
\* RateLimitError of the last permitted call is raised with no sleep after
\* it; between consecutive calls it sleeps 2^attempt seconds (1, 2, 4, ...);
\* any other error is raised at once, without a retry.
C28_RetryWithBackoff ==
    LET n == Len(calls) IN
    retryPc # "off" =>
        /\ n <= max_retries
        /\ \A k \in 1..(n - 1) : calls[k] = "RateLimitError"
        /\ (n >= 1 /\ calls[n] \in FuncValues) =>
              /\ retryPc = "returned" /\ retryResult = calls[n]
              /\ Len(sleeps) = n - 1
        /\ (n >= 1 /\ calls[n] \in OtherErrors) =>
              /\ retryPc = "raised" /\ retryResult = calls[n]
              /\ Len(sleeps) = n - 1
        /\ (n >= 1 /\ n = max_retries /\ calls[n] = "RateLimitError") =>
              /\ retryPc = "raised" /\ retryResult = "RateLimitError"
              /\ Len(sleeps) = n - 1
        /\ (n >= 1 /\ n < max_retries /\ calls[n] = "RateLimitError") =>
              /\ retryPc \in {"sleeping", "calling"}
              /\ retryPc = "calling" => Len(sleeps) = n
        /\ Len(sleeps) <= n
        /\ \A k \in 1..Len(sleeps) :
              sleeps[k] = CASE k = 1 -> 1 [] k = 2 -> 2 [] k = 3 -> 4 [] k = 4 -> 8
                            [] k = 5 -> 16 [] OTHER -> 32
        /\ retryPc \in {"returned", "raised"} => ~ENABLED NextRetry

\* Three permitted calls, all rate limited: sleeps of 1 s and 2 s, then the
\* third RateLimitError is raised.
C28_Witness ==
    /\ max_retries = 3
    /\ calls = <<"RateLimitError", "RateLimitError", "RateLimitError">>
    /\ sleeps = <<1, 2>>
    /\ retryPc = "raised"
    /\ retryResult = "RateLimitError"

\* main declares fifteen services.
NumServices == 15

\* C29: in verify-keys every runCheck call appends exactly one entry to
\* results, with status PASS, FAIL or SKIPPED and for the service it was
\* called for; a check that resolves to false, throws or is skipped does not
\* stop main, which goes on to the next declared check, one at a time in
\* declaration order; when main reaches the report, results holds exactly
\* one entry per declared service, fifteen, in declaration order.
C29_OneEntryPerCheck ==
    vkPc # "off" =>
        /\ Len(Services) = NumServices
        /\ vkPc \in {"main", "in_check", "report"}
        /\ Len(results) = vkIdx - 1
        /\ \A k \in 1..Len(results) :
             /\ results[k].service = Services[k].name
             /\ results[k].status \in {"PASS", "FAIL", "SKIPPED"}
        /\ (vkPc = "main" /\ vkIdx <= NumServices)
              => ENABLED (RunCheckSkip \/ RunCheckInvoke)
        /\ vkPc = "in_check" => ~ENABLED (RunCheckSkip \/ RunCheckInvoke)
        /\ vkPc = "report" => Len(results) = NumServices

\* The report is reached after a check that threw, a skipped one, a check
\* that resolved to false and a passing one.
C29_Witness ==
    /\ vkPc = "report"
    /\ settled[1] = "throws" /\ results[1].status = "FAIL"
    /\ results[2].status = "SKIPPED"
    /\ settled[5] = "false" /\ results[5].status = "FAIL"
    /\ results[15].status = "PASS"

\* C30: in verify-keys a service is reported SKIPPED exactly when none of
\* its listed env keys holds a non-empty value, and then its check function
\* is never invoked; when a listed key is set, the check function is invoked
\* exactly once, and the status is PASS exactly when it resolved to true,
\* FAIL otherwise.
C30_SkippedIffNoKeySet ==
    vkPc # "off" =>
        /\ \A k \in 1..NumServices : invoked[k] <= 1
        /\ \A k \in 1..Len(results) :
             LET noKey == \A key \in Services[k].keys :
                              EnvOf(env, key) \in {"undefined", ""}
             IN  /\ results[k].status = "SKIPPED" <=> noKey
                 /\ noKey => invoked[k] = 0 /\ settled[k] = ""
                 /\ ~noKey => /\ invoked[k] = 1
                              /\ results[k].status = "PASS" <=> settled[k] = "true"
                              /\ results[k].status \in {"PASS", "FAIL"}

\* Supabase with only its URL set is checked once and reported FAIL, a
\* service whose key is the empty string is SKIPPED, and one is PASS.
C30_Witness ==
    /\ vkPc = "report"
    /\ Truthy(EnvOf(env, "SUPABASE_URL")) /\ ~Truthy(EnvOf(env, "SUPABASE_ANON_KEY"))
    /\ invoked[5] = 1 /\ results[5].status = "FAIL"
    /\ env["OPENAI_API_KEY"] = "" /\ results[1].status = "SKIPPED" /\ invoked[1] = 0
    /\ results[15].status = "PASS" /\ invoked[15] = 1

=============================================================================
